---------------------------- MODULE Spec2Model ----------------------------
(***************************************************************************)
(* The two example notebooks of pytae, run cell by cell in document order, *)
(* each in a kernel session of its own.                                    *)
(*                                                                         *)
(*   plots : the Plotter notebook (two mosaic figures, a read of the       *)
(*           recorded plot keyword arguments, a sample-data cell)          *)
(*   utils : the frame-utilities notebook (cols, group_x, handle_missing,  *)
(*           clip, select)                                                 *)
(*                                                                         *)
(* A notebook is the sequence of its statements; a method chain            *)
(* (k.data(..).plot(..)...finalize()) is one statement per call, the value *)
(* of each call being the receiver of the next.  The Plotter class itself  *)
(* is not among the notebooks: its operations are modelled from the        *)
(* interface description (Plotter*, Mosaic*, StripCaret).                   *)
(***************************************************************************)
EXTENDS Integers, Sequences, FiniteSets, TLC

VARIABLES pc, env, err, out, heap, recv

vars == <<pc, env, err, out, heap, recv>>

None == [t |-> "none"]

(***************************************************************************)
(* Values a name can be bound to.                                          *)
(***************************************************************************)
Module(m) == [t |-> "module", v |-> m]
Frame(d) == [t |-> "frame", v |-> d]
Dict(d) == [t |-> "dict", v |-> d]
Str(s) == [t |-> "str", v |-> s]
Obj(id) == [t |-> "obj", v |-> id]
Result(f, of) == [t |-> "result", f |-> f, of |-> of]

(***************************************************************************)
(* Statements.  reads: the names the statement evaluates; bind: the name  *)
(* it assigns ("" for none); arg: what the operation needs.                *)
(***************************************************************************)
Import(c, name, mod) ==
    [cell |-> c, op |-> "import", bind |-> name, reads |-> {}, arg |-> Module(mod)]
Assign(c, name, reads, val) ==
    [cell |-> c, op |-> "assign", bind |-> name, reads |-> reads, arg |-> val]
NewPlotter(c, name, mosaicName, figsize) ==
    [cell |-> c, op |-> "new", bind |-> name, reads |-> {"pt", mosaicName},
     arg |-> [mosaic |-> mosaicName, figsize |-> figsize]]
ChainOn(c, name) ==
    [cell |-> c, op |-> "chain", bind |-> "", reads |-> {name}, arg |-> name]
DataCall(c, name) ==
    [cell |-> c, op |-> "data", bind |-> "", reads |-> {name}, arg |-> name]
\* kw: the keyword arguments given as literals; refs: those given as names
PlotCall(c, kw, refs) ==
    [cell |-> c, op |-> "plot", bind |-> "",
     reads |-> {refs[a] : a \in DOMAIN refs}, arg |-> [kw |-> kw, refs |-> refs]]
FinalizeCall(c) ==
    [cell |-> c, op |-> "finalize", bind |-> "", reads |-> {}, arg |-> None]
ChainEnd(c) ==
    [cell |-> c, op |-> "endchain", bind |-> "", reads |-> {}, arg |-> None]
ReadFigOf(c, name) ==
    [cell |-> c, op |-> "fig", bind |-> "", reads |-> {name}, arg |-> name]
ReadStoreOf(c, name, label, key) ==
    [cell |-> c, op |-> "store", bind |-> "", reads |-> {name},
     arg |-> [name |-> name, label |-> label, key |-> key]]
\* an expression or a library call on frames: name = f(of) or just f(of)
Expr(c, name, reads, f, of, with) ==
    [cell |-> c, op |-> "expr", bind |-> name, reads |-> reads,
     arg |-> [f |-> f, of |-> of, with |-> with]]

NoRefs == <<>>

(***************************************************************************)
(* The Plotter notebook, cell 1.                                           *)
(***************************************************************************)
Mosaic1 ==
    <<"\n", "A", "B", "C", "\n", "D", "E", "F", "\n", "G", "H", "I", "\n",
      "J", "J", "J", "\n">>

Cell1Setup ==
    << Import(1, "np", "numpy"),
       Import(1, "pd", "pandas"),
       Import(1, "pt", "pytae"),
       Assign(1, "fmri", {"pt"}, Frame("fmri")),
       Assign(1, "tips", {"pt"}, Frame("tips")),
       Assign(1, "healthexp", {"pt"}, Frame("healthexp")),
       Assign(1, "color", {},
              Dict([cue |-> "blue", stim |-> "black", parietal |-> "red",
                    frontal |-> "green", Male |-> "blue", Female |-> "pink",
                    Dinner |-> "green", Lunch |-> "orange", Yes |-> "grey",
                    No |-> "brown"])),
       Assign(1, "style", {}, Dict([cue |-> "-", stim |-> "--"])),
       Assign(1, "width", {}, Dict([cue |-> 3, stim |-> 1])),
       Assign(1, "marker", {}, Dict([Male |-> "o", Female |-> "x"])),
       Assign(1, "size", {}, Dict([Male |-> 10, Female |-> 20])),
       Assign(1, "mosaic", {}, Str(Mosaic1)),
       NewPlotter(1, "k", "mosaic", <<12, 12>>) >>

Cell1Calls ==
    << ChainOn(1, "k"),
       DataCall(1, "fmri"),
       PlotCall(1, [x |-> "timepoint", y |-> "signal", by |-> "event", aggfunc |-> "mean",
                    on |-> <<"A">>, title |-> "region & event", kind |-> "line"],
                [color |-> "color", style |-> "style", width |-> "width"]),
       PlotCall(1, [x |-> "timepoint", y |-> "signal", by |-> "region", kind |-> "bar",
                    stacked |-> TRUE, on |-> <<"A">>, aggfunc |-> "mean"],
                [color |-> "color"]),
       DataCall(1, "tips"),
       PlotCall(1, [x |-> "day", y |-> "total_bill", by |-> "sex", aggfunc |-> "mean",
                    on |-> <<"B", "^">>, kind |-> "bar", title |-> "avg bill by sex"],
                [color |-> "color"]),
       PlotCall(1, [x |-> "size", y |-> "tip", by |-> "smoker", on |-> <<"C">>,
                    kind |-> "barh", title |-> "avg tips by smoker status"],
                [color |-> "color"]),
       DataCall(1, "tips"),
       PlotCall(1, [kind |-> "scatter", x |-> "total_bill", y |-> "tip", on |-> <<"D">>,
                    marker |-> "x", s |-> 5, c |-> "day", cmap |-> "viridis",
                    title |-> "scatter plot demo"],
                NoRefs),
       DataCall(1, "tips"),
       PlotCall(1, [kind |-> "hexbin", x |-> "total_bill", y |-> "tip", on |-> <<"E">>,
                    C |-> "size", cmap |-> "viridis", gridsize |-> 20,
                    title |-> "hexbin demo"],
                [reduce_C_function |-> "np"]),
       DataCall(1, "tips"),
       PlotCall(1, [kind |-> "pie", y |-> "tip", by |-> "time", on |-> <<"F">>,
                    aggfunc |-> "mean", autopct |-> "%1.1f%%",
                    explode |-> <<"0", "0.05">>, title |-> "pie demo"],
                [colors |-> "color"]),
       DataCall(1, "healthexp"),
       PlotCall(1, [kind |-> "area", x |-> "Year", y |-> "Spending_USD", aggfunc |-> "mean",
                    on |-> <<"G", "^">>, legend |-> FALSE, by |-> "Country",
                    title |-> "area plot demo"],
                NoRefs),
       DataCall(1, "tips"),
       PlotCall(1, [kind |-> "kde", on |-> <<"H", "^">>, by |-> "day", column |-> "tip",
                    title |-> "kde by days"],
                NoRefs),
       PlotCall(1, [kind |-> "kde", column |-> "tip", on |-> <<"H">>, by |-> "sex"],
                NoRefs),
       PlotCall(1, [kind |-> "density", on |-> <<"I">>, by |-> "day", column |-> "tip",
                    title |-> "density by days"],
                NoRefs),
       DataCall(1, "fmri") >>

\* variant: the kind spelled 'histogram'
Cell1HistPlotBadKind ==
    PlotCall(1, [kind |-> "histogram", column |-> "signal", by |-> "event", on |-> <<"J">>,
                 bins |-> 100],
             NoRefs)

Cell1HistPlot ==
    PlotCall(1, [kind |-> "hist", column |-> "signal", by |-> "event", on |-> <<"J">>,
                 bins |-> 100],
             NoRefs)

\* variant: both finalize lines commented out
Cell1FinalizeCommentedOut == <<>>

\* of the two finalize lines the first is commented out
Cell1Finalize == << FinalizeCall(1) >>

Cell1Chain == Cell1Calls \o << Cell1HistPlot >> \o Cell1Finalize \o << ChainEnd(1) >>

Cell1 == Cell1Setup \o Cell1Chain \o << ReadFigOf(1, "k") >>

(***************************************************************************)
(* The Plotter notebook, cell 2.                                           *)
(***************************************************************************)
Mosaic2 == <<"\n", "A", "B", "\n", "C", "D", "\n">>

\* variant: the second mosaic is set but k is not built again
Cell2SetupNoRebind ==
    << Assign(2, "mosaic", {}, Str(Mosaic2)) >>

Cell2Setup ==
    << Assign(2, "mosaic", {}, Str(Mosaic2)),
       NewPlotter(2, "k", "mosaic", <<8, 8>>) >>

Cell2Calls ==
    << ChainOn(2, "k"),
       DataCall(2, "fmri"),
       PlotCall(2, [x |-> "timepoint", y |-> "signal", by |-> "event", aggfunc |-> "mean",
                    on |-> <<"A">>, title |-> "region & event", kind |-> "line"],
                [color |-> "color", style |-> "style", width |-> "width"]),
       PlotCall(2, [x |-> "timepoint", y |-> "signal", by |-> "region", kind |-> "bar",
                    stacked |-> TRUE, on |-> <<"A">>, aggfunc |-> "mean"],
                [color |-> "color"]),
       DataCall(2, "tips"),
       PlotCall(2, [x |-> "day", y |-> "total_bill", by |-> "sex", aggfunc |-> "mean",
                    on |-> <<"B">>, kind |-> "bar", title |-> "avg bill by sex",
                    secondary_y |-> TRUE],
                [color |-> "color"]),
       PlotCall(2, [x |-> "size", y |-> "tip", by |-> "smoker", on |-> <<"C">>,
                    kind |-> "barh", title |-> "avg tips by smoker status"],
                [color |-> "color"]),
       DataCall(2, "healthexp") >>

\* variant: the area plot copied from cell 1 with its on='G^' kept
Cell2AreaPlotOnG ==
    PlotCall(2, [kind |-> "area", x |-> "Year", y |-> "Spending_USD", aggfunc |-> "mean",
                 on |-> <<"G", "^">>, by |-> "Country", title |-> "area plot demo",
                 secondary_y |-> TRUE, legend |-> FALSE],
             NoRefs)

Cell2AreaPlot ==
    PlotCall(2, [kind |-> "area", x |-> "Year", y |-> "Spending_USD", aggfunc |-> "mean",
                 on |-> <<"D">>, by |-> "Country", title |-> "area plot demo",
                 secondary_y |-> TRUE, legend |-> FALSE],
             NoRefs)

Cell2Finalize == << FinalizeCall(2) >>

Cell2Chain == Cell2Calls \o << Cell2AreaPlot >> \o Cell2Finalize \o << ChainEnd(2) >>

Cell2 == Cell2Setup \o Cell2Chain \o << ReadFigOf(2, "k") >>

(***************************************************************************)
(* The Plotter notebook, cells 3 and 5 (cells 4, 6 and 7 are empty).       *)
(***************************************************************************)
Cell3 == << ReadStoreOf(3, "k", <<"A">>, "kind") >>

Cell5 ==
    << Assign(5, "penguins", {"pt"}, Frame("penguins")),
       Expr(5, "", {"penguins"}, "display", "penguins", None) >>

PlotsNotebook == Cell1 \o Cell2 \o Cell3 \o Cell5

(***************************************************************************)
(* The frame-utilities notebook.                                           *)
(***************************************************************************)
UtilsNotebook ==
    << Import(1, "np", "numpy"),
       Import(1, "pd", "pandas"),
       Import(1, "pt", "pytae"),
       Import(1, "sns", "seaborn"),
       Assign(1, "penguins", {"sns"}, Frame("penguins")),
       Expr(2, "", {"penguins"}, "cols", "penguins", None),
       Expr(3, "df", {"penguins"}, "group_x", "penguins", None),
       Expr(3, "", {"df"}, "head", "df", None),
       Expr(4, "df", {"penguins"}, "handle_missing", "penguins", [fillna |-> "$"]),
       Expr(4, "", {"df"}, "head", "df", None),
       Expr(5, "", {"df"}, "clip", "df", None),
       Expr(6, "", {"penguins"}, "display", "penguins", None),
       Expr(7, "", {"penguins"}, "select", "penguins", [regex |-> "spe|sex|^n|^bi"]),
       Expr(8, "", {"penguins"}, "select", "penguins", [list |-> <<"species", "n">>]),
       Assign(9, "df", {"pd", "np"}, Frame("demo")),
       Expr(9, "", {"df"}, "print", "df", None),
       Expr(9, "", {"df"}, "select", "df", [list |-> <<"A", "B_X">>]),
       Expr(9, "", {"df"}, "select", "df", [regex |-> "^B|C"]),
       Expr(9, "", {"df"}, "select", "df",
            [list |-> <<"A", "B_X">>, regex |-> "^B|C"]) >>

Notebooks == {"plots", "utils"}

Program(nb) == IF nb = "plots" THEN PlotsNotebook ELSE UtilsNotebook

Names(nb) ==
    UNION {Program(nb)[i].reads : i \in DOMAIN Program(nb)}
        \cup ({Program(nb)[i].bind : i \in DOMAIN Program(nb)} \ {""})

(***************************************************************************)
(* The Plotter, from its interface description.                            *)
(***************************************************************************)
RECURSIVE SplitLines(_, _, _)
\* the rows of a mosaic string: its lines, the empty ones dropped
SplitLines(s, i, row) ==
    IF i > Len(s)
    THEN IF row = <<>> THEN <<>> ELSE <<row>>
    ELSE IF s[i] = "\n"
         THEN (IF row = <<>> THEN <<>> ELSE <<row>>) \o SplitLines(s, i + 1, <<>>)
         ELSE SplitLines(s, i + 1, Append(row, s[i]))

MosaicRows(m) == SplitLines(m, 1, <<>>)

\* the single-letter labels a mosaic string assigns its cells to
MosaicLabels(m) ==
    LET rows == MosaicRows(m)
    IN  UNION {{rows[r][c] : c \in DOMAIN rows[r]} : r \in DOMAIN rows}

\* a target cell with an optional trailing '^' removed
StripCaret(on) ==
    IF Len(on) > 0 /\ on[Len(on)] = "^" THEN SubSeq(on, 1, Len(on) - 1) ELSE on

EmptyStore == [l \in {} |-> None]

PlotterInit(mosaic, figsize) ==
    [mosaic |-> mosaic, figsize |-> figsize, active |-> None, log |-> <<>>,
     store |-> EmptyStore, calls |-> <<>>,
     fig |-> [axes |-> MosaicLabels(mosaic), drawn |-> <<>>, assembled |-> FALSE]]

\* variant: only the first data call sets the dataset
PlotterDataKeepFirst(self, d) ==
    [self EXCEPT !.active = IF @ = None THEN d ELSE @, !.calls = Append(@, "data")]

\* data(d): d becomes the active dataset
PlotterData(self, d) ==
    [self EXCEPT !.active = d, !.calls = Append(@, "data")]

\* the store after a plot on a label: the label's first plot makes its entry; a
\* later one replaces it or leaves it (ow), which the interface does not say
StorePut(store, label, kw, ow) ==
    IF label \in DOMAIN store /\ ~ow
    THEN store
    ELSE [l \in DOMAIN store \cup {label} |-> IF l = label THEN kw ELSE store[l]]

\* variant: the store keyed by the on argument as given ('B^')
PlotterPlotKeyedByOn(self, kw, at, ow) ==
    [self EXCEPT !.log = Append(@, [kw |-> kw, data |-> self.active, at |-> at]),
                 !.store = StorePut(@, kw.on, kw, ow),
                 !.calls = Append(@, "plot"),
                 !.fig.drawn = Append(@, [on |-> kw.on, data |-> self.active, at |-> at])]

\* plot(**kw): drawn from the active dataset on the cell kw.on names, and recorded
PlotterPlot(self, kw, at, ow) ==
    [self EXCEPT !.log = Append(@, [kw |-> kw, data |-> self.active, at |-> at]),
                 !.store = StorePut(@, StripCaret(kw.on), kw, ow),
                 !.calls = Append(@, "plot"),
                 !.fig.drawn = Append(@, [on |-> kw.on, data |-> self.active, at |-> at])]

PlotterFinalize(self) ==
    [self EXCEPT !.fig.assembled = TRUE, !.calls = Append(@, "finalize")]

PlotterFig(self) == [self EXCEPT !.calls = Append(@, "fig")]

\* variant: a call returns a changed copy and leaves its receiver alone
ChainReturnCopy(h, id, self) == [heap |-> Append(h, self), ret |-> Len(h) + 1]

\* data, plot and finalize return the Plotter they were called on
ChainReturn(h, id, self) == [heap |-> [h EXCEPT ![id] = self], ret |-> id]

(***************************************************************************)
(* The sessions.                                                           *)
(***************************************************************************)
Init ==
    /\ pc = [nb \in Notebooks |-> 1]
    /\ env = [nb \in Notebooks |-> [n \in Names(nb) |-> None]]
    /\ err = [nb \in Notebooks |-> FALSE]
    /\ out = [nb \in Notebooks |-> None]
    /\ heap = <<>>
    /\ recv = None

Cur(nb) == Program(nb)[pc[nb]]

\* the session is at a statement of kind op
At(nb, op) ==
    /\ ~err[nb]
    /\ pc[nb] <= Len(Program(nb))
    /\ Cur(nb).op = op

\* every name the statement reads is bound
Bound(nb) == \A n \in Cur(nb).reads : env[nb][n] # None

IsObj(v) == v.t = "obj" /\ v.v \in DOMAIN heap

\* an exception (NameError, AttributeError, KeyError) ends the run of the notebook
Raise(nb) ==
    /\ err' = [err EXCEPT ![nb] = TRUE]
    /\ UNCHANGED <<pc, env, out, heap, recv>>

Advance(nb) == pc' = [pc EXCEPT ![nb] = @ + 1]

Bind(nb, name, val) ==
    env' = IF name = "" THEN env ELSE [env EXCEPT ![nb][name] = val]

\* import m as name
DoImport(nb) ==
    /\ At(nb, "import")
    /\ Bind(nb, Cur(nb).bind, Cur(nb).arg)
    /\ Advance(nb)
    /\ UNCHANGED <<err, out, heap, recv>>

\* name = <expression of the names in reads>
DoAssign(nb) ==
    /\ At(nb, "assign")
    /\ IF Bound(nb)
       THEN /\ Bind(nb, Cur(nb).bind, Cur(nb).arg)
            /\ Advance(nb)
            /\ UNCHANGED <<err, out, heap, recv>>
       ELSE Raise(nb)

\* k = pt.Plotter(mosaic, figsize=...)
DoNew(nb) ==
    /\ At(nb, "new")
    /\ IF Bound(nb)
       THEN /\ heap' = Append(heap, PlotterInit(env[nb][Cur(nb).arg.mosaic].v,
                                                 Cur(nb).arg.figsize))
            /\ Bind(nb, Cur(nb).bind, Obj(Len(heap) + 1))
            /\ Advance(nb)
            /\ UNCHANGED <<err, out, recv>>
       ELSE Raise(nb)

\* (k : the receiver of the first call of the chain
DoChain(nb) ==
    /\ At(nb, "chain")
    /\ IF Bound(nb)
       THEN /\ recv' = env[nb][Cur(nb).arg]
            /\ Advance(nb)
            /\ UNCHANGED <<env, err, out, heap>>
       ELSE Raise(nb)

\* .data(name)
DoData(nb) ==
    /\ At(nb, "data")
    /\ IF Bound(nb) /\ IsObj(recv)
       THEN LET r == ChainReturn(heap, recv.v,
                                 PlotterData(heap[recv.v], env[nb][Cur(nb).arg]))
            IN  /\ heap' = r.heap
                /\ recv' = Obj(r.ret)
                /\ Advance(nb)
                /\ UNCHANGED <<env, err, out>>
       ELSE Raise(nb)

\* the keyword arguments of a plot call, the names among them evaluated
Kwargs(nb, a) ==
    [n \in DOMAIN a.kw \cup DOMAIN a.refs |->
        IF n \in DOMAIN a.kw THEN a.kw[n] ELSE env[nb][a.refs[n]]]

\* .plot(...)
DoPlot(nb) ==
    /\ At(nb, "plot")
    /\ IF Bound(nb) /\ IsObj(recv)
       THEN \E ow \in BOOLEAN :
              LET r == ChainReturn(heap, recv.v,
                                   PlotterPlot(heap[recv.v], Kwargs(nb, Cur(nb).arg),
                                               pc[nb], ow))
              IN  /\ heap' = r.heap
                  /\ recv' = Obj(r.ret)
                  /\ Advance(nb)
                  /\ UNCHANGED <<env, err, out>>
       ELSE Raise(nb)

\* .finalize()
DoFinalize(nb) ==
    /\ At(nb, "finalize")
    /\ IF IsObj(recv)
       THEN LET r == ChainReturn(heap, recv.v, PlotterFinalize(heap[recv.v]))
            IN  /\ heap' = r.heap
                /\ recv' = Obj(r.ret)
                /\ Advance(nb)
                /\ UNCHANGED <<env, err, out>>
       ELSE Raise(nb)

\* ) : the value of the chain is dropped
DoEndChain(nb) ==
    /\ At(nb, "endchain")
    /\ recv' = None
    /\ Advance(nb)
    /\ UNCHANGED <<env, err, out, heap>>

\* k.fig
DoReadFig(nb) ==
    /\ At(nb, "fig")
    /\ IF Bound(nb) /\ IsObj(env[nb][Cur(nb).arg])
       THEN LET id == env[nb][Cur(nb).arg].v
            IN  /\ out' = [out EXCEPT ![nb] = [cell |-> Cur(nb).cell, what |-> "fig",
                                               obj |-> id, val |-> heap[id].fig]]
                /\ heap' = [heap EXCEPT ![id] = PlotterFig(@)]
                /\ Advance(nb)
                /\ UNCHANGED <<env, err, recv>>
       ELSE Raise(nb)

\* k.plot_kwargs_store[label][key]
DoReadStore(nb) ==
    /\ At(nb, "store")
    /\ LET a == Cur(nb).arg
       IN  IF /\ Bound(nb)
              /\ IsObj(env[nb][a.name])
              /\ a.label \in DOMAIN heap[env[nb][a.name].v].store
              /\ a.key \in DOMAIN heap[env[nb][a.name].v].store[a.label]
           THEN LET id == env[nb][a.name].v
                IN  /\ out' = [out EXCEPT ![nb] = [cell |-> Cur(nb).cell, what |-> "store",
                                                   obj |-> id,
                                                   val |-> heap[id].store[a.label][a.key]]]
                    /\ Advance(nb)
                    /\ UNCHANGED <<env, err, heap, recv>>
           ELSE Raise(nb)

\* an expression over frames, displayed or bound to a name
DoExpr(nb) ==
    /\ At(nb, "expr")
    /\ IF Bound(nb)
       THEN LET v == Result(Cur(nb).arg.f, env[nb][Cur(nb).arg.of])
            IN  /\ Bind(nb, Cur(nb).bind, v)
                /\ out' = [out EXCEPT ![nb] = [cell |-> Cur(nb).cell, what |-> "expr",
                                               obj |-> 0, val |-> v]]
                /\ Advance(nb)
                /\ UNCHANGED <<err, heap, recv>>
       ELSE Raise(nb)

Next ==
    \E nb \in Notebooks :
        \/ DoImport(nb)
        \/ DoAssign(nb)
        \/ DoNew(nb)
        \/ DoChain(nb)
        \/ DoData(nb)
        \/ DoPlot(nb)
        \/ DoFinalize(nb)
        \/ DoEndChain(nb)
        \/ DoReadFig(nb)
        \/ DoReadStore(nb)
        \/ DoExpr(nb)

Spec == Init /\ [][Next]_vars

(***************************************************************************)
(* Vocabulary of the properties.                                           *)
(***************************************************************************)
P == PlotsNotebook

Finished(nb) == pc[nb] > Len(Program(nb))

RECURSIVE LastData(_)
\* the data call most recently before (or at) statement i within i's chain; 0 for none
LastData(i) ==
    IF i = 0 \/ P[i].op = "chain" THEN 0
    ELSE IF P[i].op = "data" THEN i
    ELSE LastData(i - 1)

\* the dataset name given to that data call
DataBefore(i) == P[LastData(i - 1)].arg

\* the plot statements of a cell, in order
PlotsOfCell(c) ==
    SelectSeq([i \in 1 .. Len(P) |-> i], LAMBDA i : P[i].cell = c /\ P[i].op = "plot")

PlotKinds ==
    {"line", "bar", "barh", "scatter", "hexbin", "pie", "area", "kde", "density", "hist"}

LabelsAtoJ == {"A", "B", "C", "D", "E", "F", "G", "H", "I", "J"}
LabelsAtoD == {"A", "B", "C", "D"}

(***************************************************************************)
(* C1.  Every plot call operates on the dataset passed to the most recent  *)
(* data call before it in its chain, in every later state too: a data call *)
(* issued afterwards does not change the dataset of an earlier plot.       *)
(***************************************************************************)
C1_PlotUsesLatestData ==
    \A o \in DOMAIN heap : \A i \in DOMAIN heap[o].log :
        LET e == heap[o].log[i]
        IN  /\ LastData(e.at - 1) > 0
            /\ e.data = env["plots"][DataBefore(e.at)]
            /\ e.data = Frame(DataBefore(e.at))

\* a later data call has switched the dataset and the earlier plots kept theirs
C1_Witness ==
    /\ Len(heap) >= 1
    /\ Len(heap[1].log) >= 4
    /\ heap[1].log[1].data = Frame("fmri")
    /\ heap[1].log[3].data = Frame("tips")
    /\ heap[1].active = Frame("healthexp")

C3_KindInFixedSet ==
    \A o \in DOMAIN heap : \A i \in DOMAIN heap[o].log :
        /\ "kind" \in DOMAIN heap[o].log[i].kw
        /\ heap[o].log[i].kw.kind \in PlotKinds

\* both chains have issued all their plot calls
C3_Witness ==
    /\ Len(heap) = 2
    /\ Len(heap[1].log) = 12
    /\ Len(heap[2].log) = 5
    /\ heap[1].log[12].kw.kind = "hist"

(***************************************************************************)
(* C4.  Every plot call targets, '^' aside, a single-letter label of the   *)
(* mosaic its Plotter was constructed with; the 4-row layout has the       *)
(* labels A..J and the 2-row layout A..D.                                  *)
(***************************************************************************)
C4_OnIsMosaicLabel ==
    \A o \in DOMAIN heap :
        /\ Len(MosaicRows(heap[o].mosaic)) \in {2, 4}
        /\ Len(MosaicRows(heap[o].mosaic)) = 4 => MosaicLabels(heap[o].mosaic) = LabelsAtoJ
        /\ Len(MosaicRows(heap[o].mosaic)) = 2 => MosaicLabels(heap[o].mosaic) = LabelsAtoD
        /\ \A i \in DOMAIN heap[o].log :
              LET l == StripCaret(heap[o].log[i].kw.on)
              IN  Len(l) = 1 /\ l[1] \in MosaicLabels(heap[o].mosaic)

\* a plot on 'B^' in the 4-row layout and one on 'D' in the 2-row layout
C4_Witness ==
    /\ Len(heap) = 2
    /\ \E i \in DOMAIN heap[1].log : heap[1].log[i].kw.on = <<"B", "^">>
    /\ \E i \in DOMAIN heap[2].log : heap[2].log[i].kw.on = <<"D">>

(***************************************************************************)
(* C5.  Every call of a chain returns the Plotter bound to k, so once the  *)
(* chain has ended that object holds what all its calls produced, and the  *)
(* figure read by k.fig is the figure of that chain.                       *)
(***************************************************************************)
ChainState(c, p) ==
    /\ Len(p.log) = Len(PlotsOfCell(c))
    /\ \A i \in DOMAIN p.log :
          /\ p.log[i].at = PlotsOfCell(c)[i]
          /\ p.log[i].kw.on = P[PlotsOfCell(c)[i]].arg.kw.on
    /\ p.active = Frame(DataBefore(PlotsOfCell(c)[Len(PlotsOfCell(c))] + 2))
    /\ Len(p.fig.drawn) = Len(PlotsOfCell(c))
    /\ \A i \in DOMAIN p.fig.drawn :
          /\ p.fig.drawn[i].at = PlotsOfCell(c)[i]
          /\ p.fig.drawn[i].data = Frame(DataBefore(PlotsOfCell(c)[i]))
    /\ p.fig.assembled

Finalizes(p) == {i \in DOMAIN p.calls : p.calls[i] = "finalize"}

C6_FinalizeOnceLast ==
    \A o \in DOMAIN heap :
        LET p == heap[o]
        IN  /\ Cardinality(Finalizes(p)) <= 1
            /\ \A i, j \in DOMAIN p.calls :
                  /\ (i < j /\ p.calls[i] = "finalize") => p.calls[j] = "fig"
                  /\ p.calls[j] = "fig" => \E f \in Finalizes(p) : f < j
            /\ Finished("plots") => Cardinality(Finalizes(p)) = 1

\* both figures were finalized and then read
C6_Witness ==
    /\ Finished("plots")
    /\ Len(heap) = 2
    /\ \A o \in DOMAIN heap :
          /\ Len(heap[o].calls) >= 3
          /\ heap[o].calls[Len(heap[o].calls)] = "fig"
          /\ heap[o].calls[Len(heap[o].calls) - 1] = "finalize"
          /\ heap[o].calls[Len(heap[o].calls) - 2] = "plot"

(***************************************************************************)
(* C7.  Run in document order, every name a statement reads was bound by   *)
(* an earlier statement, and a name bound again refers to the later value: *)
(* cell 3 reads the store of the Plotter built with the 2-row mosaic, and  *)
(* df.clip() reads the frame handle_missing returned.                      *)
(***************************************************************************)
C7_NamesBoundInOrder ==
    /\ \A nb \in Notebooks :
          /\ ~err[nb]
          /\ ~Finished(nb) => Bound(nb)
    /\ (out["plots"] # None /\ out["plots"].what = "store") =>
          /\ Len(MosaicRows(heap[out["plots"].obj].mosaic)) = 2
          /\ env["plots"]["mosaic"] = Str(Mosaic2)
    /\ (out["utils"] # None /\ out["utils"].val.f = "clip") =>
          out["utils"].val.of = Result("handle_missing", Frame("penguins"))

\* cell 3 of the one notebook and df.clip() of the other have run
C7_Witness ==
    /\ out["plots"] # None
    /\ out["plots"].what = "store"
    /\ out["plots"].obj = 2
    /\ out["utils"] # None
    /\ out["utils"].val.f = "clip"

=============================================================================
